---- MODULE Spec2Model ----
(***************************************************************************)
(* Model of the command-execution and output-streaming pipeline of         *)
(* src/gui/terminal_emulator.py (class TerminalWidget).                    *)
(*                                                                         *)
(* One UI thread runs execute_command, run_quick_command, stop_command,    *)
(* clear_output, save_output and the timer slot update_output.  Every      *)
(* execute_command                                                         *)
(* starts one daemon thread running run_in_thread; the threads share       *)
(* self.current_process and self.output_queue with the UI thread.  Child   *)
(* processes write lines into a pipe and exit.                             *)
(*                                                                         *)
(* Texts are sequences of tokens.  A token is a record [k, p, n]: a        *)
(* literal piece of text (k is the text), line n of process p (k = "line") *)
(* or the decimal rendering of the integer n (k = "int").  Non-ASCII       *)
(* glyphs of the source are written in ASCII.                              *)
(*                                                                         *)
(* Spec is the widget with up to MaxInv commands started at any time.      *)
(* SpecE2E is one command from the idle widget with the timer and the      *)
(* thread scheduled fairly.  SpecSave is one command with stop, clear and  *)
(* save_output.  SpecStop is SpecE2E with stop_command.  SpecTool is one   *)
(* call of BaseSecurityTool.execute (src/tools/base_tool.py) with its      *)
(* child process and the two pipes between them.                           *)
(***************************************************************************)
EXTENDS Integers, Sequences, FiniteSets, TLC

\* ------------------------------------------------------------------ bounds
MaxInv == 2      \* execute_command calls in one run
MaxLines == 2    \* lines the child processes of one run write, in all
MaxStops == 1    \* stop_command calls that find a process reference
MaxFaults == 1   \* failures of Popen and of readline in one run
MaxSaves == 2    \* save_output calls in one run
MaxToolLines == 3  \* lines the child of BaseSecurityTool.execute writes, in all
PipeCap == 1     \* lines an OS pipe holds before a write to it blocks
MaxParams == 2   \* declared parameters of a tool

\* --------------------------------------------------------------- constants
None == 0                       \* Python's None as a process reference
SIGTERM == 15                   \* Popen.terminate sends SIGTERM; returncode is -15
ExitCodes == {0, 1}             \* exit codes a child chooses on its own
Invs == 1 .. MaxInv             \* invocation i spawns process i

VARIABLES
    current_process,   \* self.current_process: None or a process
    output_queue,      \* self.output_queue: FIFO of (msg_type, data); each event
                       \* also carries inv, the thread that put it (history)
    status_label,      \* text of self.status_label: "Idle" or "Running"
    stop_btn,          \* self.stop_btn.isEnabled()
    output,            \* the QTextEdit: sequence of styled text segments
    emitted,           \* command_finished emissions: <<return code, text>>
    pc,                \* position of each run_in_thread
    reader,            \* the process whose stdout.readline each thread bound
    waitOn,            \* the process each thread called wait() on
    proc,              \* child processes
    nStops,            \* stop_command calls that signalled so far
    nFaults,           \* failures of Popen and readline chosen so far
    produced,          \* history: every event put, in put order
    consumed,          \* history: every event update_output popped
    file,              \* content of the file the save dialog names: NoFile or text
    save_call,         \* the last save_output call: path chosen?, exception raised
    nSaves,            \* save_output calls so far
    tool,              \* BaseSecurityTool.execute: position, locals, callbacks made
    child              \* the process execute spawned, with its two pipes

uiVars == <<current_process, status_label, stop_btn, output, emitted>>
thVars == <<pc, reader, waitOn>>
qVars == <<output_queue, produced>>
fsVars == <<file, save_call, nSaves>>
toolVars == <<tool, child>>
vars == <<current_process, output_queue, status_label, stop_btn, output, emitted,
          pc, reader, waitOn, proc, nStops, nFaults, produced,
          consumed, file, save_call, nSaves, tool, child>>

\* ------------------------------------------------------------------ tokens
Lit(s) == [k |-> s, p |-> 0, n |-> 0]
LineTok(p, n) == [k |-> "line", p |-> p, n |-> n]
IntTok(n) == [k |-> "int", p |-> 0, n |-> n]
NoneTok == Lit("None")

\* str(e) of the exceptions run_in_thread can catch
SpawnError == Lit("[Errno 2] No such file or directory")
ReadError == Lit("'utf-8' codec can't decode byte")
NoneTypeError == Lit("'NoneType' object has no attribute")

Last(s) == s[Len(s)]

\* --------------------------------------------------------- text and style
\* str.strip() of the quick-command text: drop leading and trailing blanks
RECURSIVE StripLeft(_)
StripLeft(t) == IF t # <<>> /\ Head(t) = Lit(" ") THEN StripLeft(Tail(t)) ELSE t

RECURSIVE StripRight(_)
StripRight(t) ==
    IF t # <<>> /\ Last(t) = Lit(" ") THEN StripRight(SubSeq(t, 1, Len(t) - 1)) ELSE t

Strip(t) == StripRight(StripLeft(t))

\* the QTextCharFormat append_output builds for a style
Format(style) ==
    CASE style = "command" -> [fg |-> "accent", bold |-> TRUE]
      [] style = "error" -> [fg |-> "danger", bold |-> FALSE]
      [] style = "success" -> [fg |-> "success", bold |-> FALSE]
      [] OTHER -> [fg |-> "text_primary", bold |-> FALSE]

\* append_output: insert the text, in the style's format, at the end
AppendOutput(out, text, style) ==
    Append(out, [text |-> text, fg |-> Format(style).fg, bold |-> Format(style).bold])

\* U+00A0, the no-break space, as a piece of text
NBSP == Lit("<U+00A0>")

\* what QTextDocument::toPlainText makes of a character of the document: the
\* no-break space becomes an ordinary space, everything else stays
PlainChar(tok) == IF tok = NBSP THEN Lit(" ") ELSE tok

\* the texts of the segments, concatenated as they were inserted
RECURSIVE RawText(_)
RawText(out) ==
    IF out = <<>> THEN <<>> ELSE Head(out).text \o RawText(Tail(out))

\* QTextEdit.toPlainText: the text of the document, formats dropped, characters
\* converted by PlainChar
toPlainText(out) == [k \in 1 .. Len(RawText(out)) |-> PlainChar(RawText(out)[k])]

CommandEcho(command) == <<Lit("\n$ ")>> \o command \o <<Lit("\n")>>
SuccessText == <<Lit("\n(ok) Command completed successfully\n")>>
FailedText(return_code) ==
    <<Lit("\n(x) Command failed (exit code "), return_code, Lit(")\n")>>
ErrorText(data) == <<Lit("\nError: "), data, Lit("\n")>>
TerminatedText == <<Lit("\n(!) Command terminated by user\n")>>

\* ------------------------------------------------------------------ inputs
Commands == {<<Lit("x")>>}
QuickTexts == {<<Lit(" ")>>, <<Lit(" "), Lit("x"), Lit(" ")>>}

Event(type, data, i) == [type |-> type, data |-> data, inv |-> i]

NoProc == [state |-> "none", written |-> 0, nread |-> 0, returncode |-> NoneTok,
           signalled |-> FALSE]

\* no file exists at the path yet; save_output has not been called yet
NoFile == <<Lit("<no file>")>>
NoCall == [path |-> FALSE, raised |-> "none"]

\* BaseSecurityTool.execute has not been called; no child process exists
Streams == {1, 2}          \* 1: the stdout pipe, 2: the stderr pipe
NoLine == Lit("")
NoResult == [returned |-> FALSE, success |-> FALSE, return_code |-> 0,
             stdout |-> <<>>, stderr |-> <<>>]
NoInput == [parameters |-> <<>>, params |-> <<>>, output_callback |-> FALSE,
            progress_callback |-> FALSE]
NoCallYet ==
    [pc |-> "idle", input |-> NoInput, built |-> FALSE,
     line |-> [s \in Streams |-> NoLine], lines |-> [s \in Streams |-> <<>>],
     output_calls |-> <<>>, progress_calls |-> 0, result |-> NoResult]
NoChild ==
    [state |-> "none", want |-> 0, returncode |-> 0,
     pipe |-> [s \in Streams |-> <<>>], written |-> [s \in Streams |-> 0]]

\* -------------------------------------------------------------------- Init
Init ==
    /\ current_process = None
    /\ output_queue = <<>>
    /\ status_label = "Idle"
    /\ stop_btn = FALSE
    /\ output = <<>>
    /\ emitted = <<>>
    /\ pc = [i \in Invs |-> "none"]
    /\ reader = [i \in Invs |-> None]
    /\ waitOn = [i \in Invs |-> None]
    /\ proc = [p \in Invs |-> NoProc]
    /\ nStops = 0
    /\ nFaults = 0
    /\ produced = <<>>
    /\ consumed = <<>>
    /\ file = NoFile
    /\ save_call = NoCall
    /\ nSaves = 0
    /\ tool = NoCallYet
    /\ child = NoChild

\* ------------------------------------------------------------ the UI thread
\* the thread the next execute_command starts
NextInv == CHOOSE i \in Invs : pc[i] = "none" /\ \A j \in Invs : pc[j] = "none" => i <= j

CanStart == \E i \in Invs : pc[i] = "none"

\* execute_command: echo the command, show Running, enable Stop, start the thread
StartCommand(command) ==
    /\ output' = AppendOutput(output, CommandEcho(command), "command")
    /\ status_label' = "Running"
    /\ stop_btn' = TRUE
    /\ pc' = [pc EXCEPT ![NextInv] = "spawn"]
    /\ UNCHANGED <<current_process, emitted, reader, waitOn, qVars, proc, nStops,
                   nFaults, consumed, fsVars, toolVars>>

ExecuteCommand ==
    /\ CanStart
    /\ \E command \in Commands : StartCommand(command)

\* run_quick_command: a non-blank text is stripped and executed
RunQuickCommand ==
    \E text \in QuickTexts :
        IF Strip(text) # <<>>
        THEN CanStart /\ StartCommand(Strip(text))
        ELSE UNCHANGED vars

\* Popen.terminate: SIGTERM to a process that has not exited yet
Terminate(p) ==
    [proc EXCEPT ![p].signalled = (proc[p].state = "running") \/ proc[p].signalled]

\* mutant of StopCommand: stop also shows the command as ended
StopCommandResets ==
    IF current_process # None
    THEN /\ nStops < MaxStops
         /\ proc' = Terminate(current_process)
         /\ output' = AppendOutput(output, TerminatedText, "warning")
         /\ nStops' = nStops + 1
         /\ status_label' = "Idle"
         /\ stop_btn' = FALSE
         /\ UNCHANGED <<current_process, emitted, thVars, qVars, nFaults, consumed, fsVars, toolVars>>
    ELSE UNCHANGED vars

\* mutant of StopCommand: the warning is appended whether or not a process
\* reference is held
StopCommandAlwaysWarns ==
    /\ nStops < MaxStops
    /\ proc' = IF current_process # None THEN Terminate(current_process) ELSE proc
    /\ output' = AppendOutput(output, TerminatedText, "warning")
    /\ nStops' = nStops + 1
    /\ UNCHANGED <<current_process, status_label, stop_btn, emitted, thVars,
                   qVars, nFaults, consumed, fsVars, toolVars>>

\* stop_command
StopCommand ==
    IF current_process # None
    THEN /\ nStops < MaxStops
         /\ proc' = Terminate(current_process)
         /\ output' = AppendOutput(output, TerminatedText, "warning")
         /\ nStops' = nStops + 1
         /\ UNCHANGED <<current_process, status_label, stop_btn, emitted, thVars,
                        qVars, nFaults, consumed, fsVars, toolVars>>
    ELSE UNCHANGED vars

\* mutant of ClearOutput: clearing also throws away the events not drained yet
ClearOutputFlushes ==
    /\ output' = <<>>
    /\ output_queue' = <<>>
    /\ UNCHANGED <<current_process, status_label, stop_btn, emitted, thVars, produced,
                   proc, nStops, nFaults, consumed, fsVars, toolVars>>

\* clear_output
ClearOutput ==
    /\ output' = <<>>
    /\ UNCHANGED <<current_process, status_label, stop_btn, emitted, thVars, qVars,
                   proc, nStops, nFaults, consumed, fsVars, toolVars>>

\* The UI state update_output works on, as a record; raised is set when a
\* handler raised out of the loop.
UiState ==
    [current_process |-> current_process, status_label |-> status_label,
     stop_btn |-> stop_btn, output |-> output, emitted |-> emitted,
     queue |-> output_queue, popped |-> <<>>, raised |-> FALSE]

\* self.command_finished.emit(return_code, text): pyqtSignal(int, str) raises
\* TypeError when return_code is None; the exception leaves update_output, the
\* events not yet popped stay in the queue.  (Where PyQt aborts the program on
\* an unhandled exception in a slot, the run ends there: a behaviour of this
\* model that takes no further step.)
Emit(st, return_code) ==
    IF return_code = NoneTok
    THEN [st EXCEPT !.raised = TRUE]
    ELSE [st EXCEPT !.emitted = Append(@, <<return_code, toPlainText(st.output)>>)]

\* mutant of OnCommandFinished: the test of the return code is inverted
OnCommandFinishedFlipped(st, return_code) ==
    Emit([st EXCEPT !.status_label = "Idle",
                    !.stop_btn = FALSE,
                    !.output = IF return_code # IntTok(0)
                               THEN AppendOutput(@, SuccessText, "success")
                               ELSE AppendOutput(@, FailedText(return_code), "error"),
                    !.current_process = None],
         return_code)

\* on_command_finished
OnCommandFinished(st, return_code) ==
    Emit([st EXCEPT !.status_label = "Idle",
                    !.stop_btn = FALSE,
                    !.output = IF return_code = IntTok(0)
                               THEN AppendOutput(@, SuccessText, "success")
                               ELSE AppendOutput(@, FailedText(return_code), "error"),
                    !.current_process = None],
         return_code)

\* mutant of HandleEvent: output events are taken from the queue and dropped
HandleEventDropsLines(st, ev) ==
    CASE ev.type = "finished" -> OnCommandFinished(st, ev.data)
      [] ev.type = "error" ->
            [st EXCEPT !.output = AppendOutput(@, ErrorText(ev.data), "error")]
      [] OTHER -> st

\* the body of update_output's loop for the event get_nowait returned
HandleEvent(st, ev) ==
    CASE ev.type = "output" -> [st EXCEPT !.output = AppendOutput(@, <<ev.data>>, "output")]
      [] ev.type = "finished" -> OnCommandFinished(st, ev.data)
      [] ev.type = "error" ->
            [st EXCEPT !.output = AppendOutput(@, ErrorText(ev.data), "error")]
      [] OTHER -> st

\* mutant of Drain: the Empty branch resets the status display
RECURSIVE DrainIdleOnEmpty(_)
DrainIdleOnEmpty(st) ==
    IF st.queue = <<>> \/ st.raised
    THEN [st EXCEPT !.status_label = "Idle", !.stop_btn = FALSE]
    ELSE DrainIdleOnEmpty(HandleEvent([st EXCEPT !.queue = Tail(@),
                                                 !.popped = Append(@, Head(st.queue))],
                                      Head(st.queue)))

\* update_output's loop: get_nowait and handle, until Empty (or a handler raises)
RECURSIVE Drain(_)
Drain(st) ==
    IF st.queue = <<>> \/ st.raised
    THEN st
    ELSE Drain(HandleEvent([st EXCEPT !.queue = Tail(@),
                                      !.popped = Append(@, Head(st.queue))],
                           Head(st.queue)))

\* update_output, the timer slot.  The loop is one step: the threads only
\* append to the queue and read current_process, so a put or a read that falls
\* between two iterations gives a state that a put or read before or after
\* the whole loop gives too.
UpdateOutput ==
    LET st == Drain(UiState) IN
    /\ current_process' = st.current_process
    /\ status_label' = st.status_label
    /\ stop_btn' = st.stop_btn
    /\ output' = st.output
    /\ emitted' = st.emitted
    /\ output_queue' = st.queue
    /\ consumed' = consumed \o st.popped
    /\ UNCHANGED <<thVars, proc, nStops, nFaults, produced, fsVars, toolVars>>

\* ------------------------------------------------- the background threads
\* mutant of Put: the event goes to the front of the queue
PutFront(ev) ==
    /\ output_queue' = <<ev>> \o output_queue
    /\ produced' = Append(produced, ev)

\* self.output_queue.put((msg_type, data))
Put(ev) ==
    /\ output_queue' = Append(output_queue, ev)
    /\ produced' = Append(produced, ev)

\* run_in_thread returns: its locals are gone
Return(i) ==
    /\ pc' = [pc EXCEPT ![i] = "done"]
    /\ reader' = [reader EXCEPT ![i] = None]
    /\ waitOn' = [waitOn EXCEPT ![i] = None]

\* mutant of Raise: the handler puts the error and the thread carries on
RaiseKeepRunning(i, e) ==
    /\ Put(Event("error", e, i))
    /\ UNCHANGED thVars

\* mutant of Raise: the handler reports the failure as a completion
RaiseAsFinished(i, e) ==
    /\ Put(Event("finished", e, i))
    /\ Return(i)

\* the except branch: put ('error', str(e)) and return
Raise(i, e) ==
    /\ Put(Event("error", e, i))
    /\ Return(i)

\* subprocess.Popen(...) of line 132: the child starts, or Popen raises
\* (OSError) and no child exists.  Popen returns once the child is running;
\* the result is not stored yet.
ThreadSpawn(i) ==
    /\ pc[i] = "spawn"
    /\ \/ /\ proc' = [proc EXCEPT ![i].state = "running"]
          /\ pc' = [pc EXCEPT ![i] = "store"]
          /\ UNCHANGED <<qVars, reader, waitOn, nFaults>>
       \/ /\ nFaults < MaxFaults
          /\ nFaults' = nFaults + 1
          /\ Raise(i, SpawnError)
          /\ UNCHANGED proc
    /\ UNCHANGED <<uiVars, nStops, consumed, fsVars, toolVars>>

\* self.current_process = <the Popen object>: the store of line 132, a step of
\* its own after the call returned
ThreadStore(i) ==
    /\ pc[i] = "store"
    /\ current_process' = i
    /\ pc' = [pc EXCEPT ![i] = "iter"]
    /\ UNCHANGED <<status_label, stop_btn, output, emitted, reader, waitOn, qVars,
                   proc, nStops, nFaults, consumed, fsVars, toolVars>>

\* iter(self.current_process.stdout.readline, ''): binds the readline of the
\* process the shared reference names now
ThreadIter(i) ==
    /\ pc[i] = "iter"
    /\ IF current_process = None
       THEN Raise(i, NoneTypeError)
       ELSE /\ reader' = [reader EXCEPT ![i] = current_process]
            /\ pc' = [pc EXCEPT ![i] = "read"]
            /\ UNCHANGED <<qVars, waitOn>>
    /\ UNCHANGED <<uiVars, proc, nStops, nFaults, consumed, fsVars, toolVars>>

\* mutant of EndOfStream: lines left in the pipe of an exited process are lost
EndOfStreamDropsUnread(p) == proc[p].state = "exited"

\* readline returns '': the process has exited (the write end of the pipe is
\* closed) and every line it wrote has been read
EndOfStream(p) == proc[p].state = "exited" /\ proc[p].nread = proc[p].written

\* one readline of the for loop that returns a line: put it, or fail decoding it
ThreadReadLine(i) ==
    /\ pc[i] = "read"
    /\ proc[reader[i]].nread < proc[reader[i]].written
    /\ proc' = [proc EXCEPT ![reader[i]].nread = @ + 1]
    /\ \/ /\ Put(Event("output", LineTok(reader[i], proc[reader[i]].nread + 1), i))
          /\ UNCHANGED <<thVars, nFaults>>
       \/ /\ nFaults < MaxFaults
          /\ nFaults' = nFaults + 1
          /\ Raise(i, ReadError)
    /\ UNCHANGED <<uiVars, nStops, consumed, fsVars, toolVars>>

\* readline returns '': the loop ends and self.current_process.wait() is called
ThreadEndOfStream(i) ==
    /\ pc[i] = "read"
    /\ EndOfStream(reader[i])
    /\ IF current_process = None
       THEN Raise(i, NoneTypeError)
       ELSE /\ waitOn' = [waitOn EXCEPT ![i] = current_process]
            /\ pc' = [pc EXCEPT ![i] = "wait"]
            /\ UNCHANGED <<qVars, reader>>
    /\ UNCHANGED <<uiVars, proc, nStops, nFaults, consumed, fsVars, toolVars>>

\* mutant of ThreadFinish: finished is put inside the read loop
ThreadFinishInLoop(i) ==
    /\ pc[i] = "wait"
    /\ proc[waitOn[i]].state = "exited"
    /\ IF current_process = None
       THEN Raise(i, NoneTypeError)
       ELSE /\ Put(Event("finished", proc[current_process].returncode, i))
            /\ pc' = [pc EXCEPT ![i] = "read"]
            /\ UNCHANGED <<reader, waitOn>>
    /\ UNCHANGED <<uiVars, proc, nStops, nFaults, consumed, fsVars, toolVars>>

\* wait() returns; return_code = self.current_process.returncode; put finished
ThreadFinish(i) ==
    /\ pc[i] = "wait"
    /\ proc[waitOn[i]].state = "exited"
    /\ IF current_process = None
       THEN Raise(i, NoneTypeError)
       ELSE /\ Put(Event("finished", proc[current_process].returncode, i))
            /\ Return(i)
    /\ UNCHANGED <<uiVars, proc, nStops, nFaults, consumed, fsVars, toolVars>>

\* ------------------------------------------------------ the child processes
RECURSIVE Written(_)
Written(n) == IF n = 0 THEN 0 ELSE proc[n].written + Written(n - 1)

\* the child writes its next line to the pipe
ProcWrite(p) ==
    /\ proc[p].state = "running"
    /\ ~proc[p].signalled
    /\ Written(MaxInv) < MaxLines
    /\ proc' = [proc EXCEPT ![p].written = @ + 1]
    /\ UNCHANGED <<uiVars, thVars, qVars, nStops, nFaults, consumed, fsVars, toolVars>>

\* the child exits: on its own with a code of its choice, or killed by SIGTERM
\* (lines it wrote before stay in the pipe; readline returns '' after them)
ProcExit(p) ==
    /\ proc[p].state = "running"
    /\ \E code \in ExitCodes :
          proc' = [proc EXCEPT ![p].state = "exited",
                               ![p].returncode = IF proc[p].signalled
                                                 THEN IntTok(0 - SIGTERM)
                                                 ELSE IntTok(code)]
    /\ UNCHANGED <<uiVars, thVars, qVars, nStops, nFaults, consumed, fsVars, toolVars>>

\* -------------------------------------------------------------------- Next
Next ==
    \/ ExecuteCommand
    \/ RunQuickCommand
    \/ StopCommand
    \/ ClearOutput
    \/ UpdateOutput
    \/ \E i \in Invs : ThreadSpawn(i)
    \/ \E i \in Invs : ThreadStore(i)
    \/ \E i \in Invs : ThreadIter(i)
    \/ \E i \in Invs : ThreadReadLine(i)
    \/ \E i \in Invs : ThreadEndOfStream(i)
    \/ \E i \in Invs : ThreadFinish(i)
    \/ \E p \in Invs : ProcWrite(p)
    \/ \E p \in Invs : ProcExit(p)

Spec == Init /\ [][Next]_vars

\* ------------------------------------------------------------ save_output
\* commands as callers pass them, one of them with a no-break space in it
LogCommands == Commands \cup {<<Lit("x"), NBSP, Lit("y")>>}

ExecuteLogCommand ==
    /\ \A j \in Invs : pc[j] = "none"
    /\ \E command \in LogCommands : StartCommand(command)

\* mutant of SaveOutput: a failure of open or write is caught and dropped
SaveOutputSwallows ==
    /\ nSaves < MaxSaves
    /\ nSaves' = nSaves + 1
    /\ LET text == toPlainText(output) IN
       \E path \in BOOLEAN :
          IF ~path
          THEN file' = file /\ save_call' = [path |-> FALSE, raised |-> "none"]
          ELSE \/ file' = text /\ save_call' = [path |-> TRUE, raised |-> "none"]
               \/ file' = file /\ save_call' = [path |-> TRUE, raised |-> "none"]
               \/ \E n \in 0 .. Len(text) - 1 :
                     /\ file' = SubSeq(text, 1, n)
                     /\ save_call' = [path |-> TRUE, raised |-> "none"]
    /\ UNCHANGED <<uiVars, thVars, qVars, proc, nStops, nFaults, consumed, toolVars>>

\* save_output: the dialog returns no path (cancelled) and nothing is written;
\* or it returns a path and the text of toPlainText() is written to the file,
\* or open raises OSError (the file is as it was), or write or close raises
\* OSError after open truncated the file (a part of the text is in the file).
\* save_output has no try: the exception leaves the call.
SaveOutput ==
    /\ nSaves < MaxSaves
    /\ nSaves' = nSaves + 1
    /\ LET text == toPlainText(output) IN
       \E path \in BOOLEAN :
          IF ~path
          THEN file' = file /\ save_call' = [path |-> FALSE, raised |-> "none"]
          ELSE \/ file' = text /\ save_call' = [path |-> TRUE, raised |-> "none"]
               \/ file' = file /\ save_call' = [path |-> TRUE, raised |-> "OSError"]
               \/ \E n \in 0 .. Len(text) - 1 :
                     /\ file' = SubSeq(text, 1, n)
                     /\ save_call' = [path |-> TRUE, raised |-> "OSError"]
    /\ UNCHANGED <<uiVars, thVars, qVars, proc, nStops, nFaults, consumed, toolVars>>

\* one command on the widget, with stop, clear and save
NextSave ==
    \/ ExecuteLogCommand
    \/ StopCommand
    \/ ClearOutput
    \/ UpdateOutput
    \/ SaveOutput
    \/ \E i \in Invs : ThreadSpawn(i)
    \/ \E i \in Invs : ThreadStore(i)
    \/ \E i \in Invs : ThreadIter(i)
    \/ \E i \in Invs : ThreadReadLine(i)
    \/ \E i \in Invs : ThreadEndOfStream(i)
    \/ \E i \in Invs : ThreadFinish(i)
    \/ \E p \in Invs : ProcWrite(p)
    \/ \E p \in Invs : ProcExit(p)

SpecSave == Init /\ [][NextSave]_vars

\* ------------------------------------------------ BaseSecurityTool.execute
\* the terminal widget, which execute does not touch
termVars == <<uiVars, thVars, qVars, proc, nStops, nFaults, consumed, fsVars>>

\* a declared ToolParameter: required or not, with a validation_regex or not
ParamDecls == [required : BOOLEAN, validation_regex : BOOLEAN]

\* what params holds for a parameter name: no entry, a falsy value, a value
\* that the regex matches, a value that it does not match
ParamValues == {"missing", "falsy", "good", "bad"}

Truthy(value) == value \in {"good", "bad"}
ReMatch(value) == value = "good"

Label(k) == [k |-> "label", p |-> 0, n |-> k]
MissingMessage(k) == <<Lit("Required parameter '"), Label(k), Lit("' is missing")>>
InvalidMessage(k) == <<Lit("Invalid format for '"), Label(k), Lit("'")>>

\* mutant of validate_parameters: the loop goes on after a failure and the
\* last failing parameter's message is returned
RECURSIVE validate_parametersLastFailure(_, _, _)
validate_parametersLastFailure(parameters, params, k) ==
    IF k > Len(parameters)
    THEN [valid |-> TRUE, error |-> <<>>]
    ELSE LET rest == validate_parametersLastFailure(parameters, params, k + 1) IN
         IF ~rest.valid
         THEN rest
         ELSE IF parameters[k].required /\ ~Truthy(params[k])
              THEN [valid |-> FALSE, error |-> MissingMessage(k)]
              ELSE IF Truthy(params[k]) /\ parameters[k].validation_regex
                         /\ ~ReMatch(params[k])
                   THEN [valid |-> FALSE, error |-> InvalidMessage(k)]
                   ELSE rest

\* validate_parameters: the loop over self.parameters from index k on
RECURSIVE validate_parameters(_, _, _)
validate_parameters(parameters, params, k) ==
    IF k > Len(parameters)
    THEN [valid |-> TRUE, error |-> <<>>]
    ELSE IF parameters[k].required /\ ~Truthy(params[k])
         THEN [valid |-> FALSE, error |-> MissingMessage(k)]
         ELSE IF Truthy(params[k]) /\ parameters[k].validation_regex
                    /\ ~ReMatch(params[k])
              THEN [valid |-> FALSE, error |-> InvalidMessage(k)]
              ELSE validate_parameters(parameters, params, k + 1)

\* ToolResult(success, return_code, stdout, stderr)
ToolResult(success, return_code, stdout, stderr) ==
    [returned |-> TRUE, success |-> success, return_code |-> return_code,
     stdout |-> stdout, stderr |-> stderr]

\* the except branch of execute
ToolFailure(e) == ToolResult(FALSE, 0 - 1, <<>>, <<e>>)

\* what the child does next: write a line to stream 1 or 2, or exit (0)
Wants(n) == IF n < MaxToolLines THEN {0, 1, 2} ELSE {0}

\* execute is called: validation fails and it returns at once, or the command
\* is built
ToolExecute ==
    /\ tool.pc = "idle"
    /\ \E n \in 0 .. MaxParams :
       \E parameters \in [1 .. n -> ParamDecls], params \in [1 .. n -> ParamValues],
          output_callback \in BOOLEAN, progress_callback \in BOOLEAN :
          LET v == validate_parameters(parameters, params, 1)
              input == [parameters |-> parameters, params |-> params,
                        output_callback |-> output_callback,
                        progress_callback |-> progress_callback]
          IN  IF ~v.valid
              THEN tool' = [tool EXCEPT !.pc = "done", !.input = input,
                                        !.result = ToolResult(FALSE, 0 - 1, <<>>, v.error)]
              ELSE tool' = [tool EXCEPT !.pc = "spawn", !.built = TRUE, !.input = input]
    /\ UNCHANGED <<child, termVars>>

\* params is not used after build_command: only the callbacks are kept
Callbacks(input) == [input EXCEPT !.parameters = <<>>, !.params = <<>>]

\* subprocess.Popen(cmd, stdout=PIPE, stderr=PIPE, ...): the child starts, or
\* Popen raises
ToolSpawn ==
    /\ tool.pc = "spawn"
    /\ \/ /\ \E w \in Wants(0) : child' = [child EXCEPT !.state = "running", !.want = w]
          /\ tool' = [tool EXCEPT !.pc = "read_stdout", !.input = Callbacks(@)]
       \/ /\ tool' = [tool EXCEPT !.pc = "done", !.input = Callbacks(@),
                                  !.result = ToolFailure(SpawnError)]
          /\ UNCHANGED child
    /\ UNCHANGED termVars

\* a blocking readline on a pipe can return: a line is in the pipe, or the
\* write end is closed (the child has exited)
CanRead(s) == child.pipe[s] # <<>> \/ child.state = "exited"

\* readline on stream s: the first line in the pipe, or '' at end of file
ReadLine(s) == IF child.pipe[s] # <<>> THEN Head(child.pipe[s]) ELSE NoLine

AfterRead(s) ==
    [child EXCEPT !.pipe[s] = IF child.pipe[s] # <<>> THEN Tail(child.pipe[s]) ELSE <<>>]

\* stdout_line = process.stdout.readline(): blocks until it can return; or the
\* line cannot be decoded and readline raises
ToolReadStdout ==
    /\ tool.pc = "read_stdout"
    /\ CanRead(1)
    /\ child' = AfterRead(1)
    /\ \/ tool' = [tool EXCEPT !.pc = "read_stderr", !.line[1] = ReadLine(1)]
       \/ /\ child.pipe[1] # <<>>
          /\ tool' = [tool EXCEPT !.pc = "done", !.result = ToolFailure(ReadError)]
    /\ UNCHANGED termVars

\* stderr_line = process.stderr.readline()
ToolReadStderr ==
    /\ tool.pc = "read_stderr"
    /\ CanRead(2)
    /\ child' = AfterRead(2)
    /\ \/ tool' = [tool EXCEPT !.pc = "handle", !.line[2] = ReadLine(2)]
       \/ /\ child.pipe[2] # <<>>
          /\ tool' = [tool EXCEPT !.pc = "done", !.result = ToolFailure(ReadError)]
    /\ UNCHANGED termVars

\* the argument output_callback gets for a line of stream s
CallbackArg(s, line) == IF s = 1 THEN <<line>> ELSE <<Lit("[stderr] "), line>>

\* the calls of output_callback one iteration makes for the two lines read
CallsFor(l1, l2) ==
    (IF l1 # NoLine THEN <<CallbackArg(1, l1)>> ELSE <<>>)
    \o (IF l2 # NoLine THEN <<CallbackArg(2, l2)>> ELSE <<>>)

\* the rest of the loop body: keep the lines read, call output_callback for
\* them, and leave the loop when poll() is not None and both lines were ''
ToolHandle ==
    /\ tool.pc = "handle"
    /\ LET l1 == tool.line[1]
           l2 == tool.line[2]
       IN  tool' = [tool EXCEPT
                !.lines[1] = IF l1 # NoLine THEN Append(@, l1) ELSE @,
                !.lines[2] = IF l2 # NoLine THEN Append(@, l2) ELSE @,
                !.output_calls = IF tool.input.output_callback
                                 THEN @ \o CallsFor(l1, l2) ELSE @,
                !.line = [s \in Streams |-> NoLine],
                !.pc = IF child.state = "exited" /\ l1 = NoLine /\ l2 = NoLine
                       THEN "wait" ELSE "read_stdout"]
    /\ UNCHANGED <<child, termVars>>

\* process.wait(), the joins, parse_output and the ToolResult of a finished run
ToolReturn ==
    /\ tool.pc = "wait"
    /\ child.state = "exited"
    /\ tool' = [tool EXCEPT !.pc = "done",
                            !.result = ToolResult(child.returncode = 0, child.returncode,
                                                  tool.lines[1], tool.lines[2])]
    /\ UNCHANGED <<child, termVars>>

\* the child writes the line it wants to write; the write blocks while the pipe
\* is full
ChildWrite ==
    /\ child.state = "running"
    /\ child.want \in Streams
    /\ Len(child.pipe[child.want]) < PipeCap
    /\ \E w \in Wants(child.written[1] + child.written[2] + 1) :
          child' = [child EXCEPT
                       !.pipe[child.want] =
                           Append(@, LineTok(child.want, child.written[child.want] + 1)),
                       !.written[child.want] = @ + 1,
                       !.want = w]
    /\ UNCHANGED <<tool, termVars>>

\* the child exits; its ends of the pipes are closed
ChildExit ==
    /\ child.state = "running"
    /\ child.want = 0
    /\ \E code \in ExitCodes :
          child' = [child EXCEPT !.state = "exited", !.returncode = code]
    /\ UNCHANGED <<tool, termVars>>

ToolStep ==
    \/ ToolExecute
    \/ ToolSpawn
    \/ ToolReadStdout
    \/ ToolReadStderr
    \/ ToolHandle
    \/ ToolReturn

ChildStep == ChildWrite \/ ChildExit

NextTool ==
    \/ ToolExecute
    \/ ToolSpawn
    \/ ToolReadStdout
    \/ ToolReadStderr
    \/ ToolHandle
    \/ ToolReturn
    \/ ChildWrite
    \/ ChildExit

SpecTool == Init /\ [][NextTool]_vars

\* --------------------------------------------- one command, start to finish
\* execute_command called on the idle widget; no second start, stop or clear
ExecuteFromIdle ==
    /\ \A j \in Invs : pc[j] = "none"
    /\ \E command \in Commands : StartCommand(command)

\* a step of a run_in_thread
ThreadStep(i) ==
    \/ ThreadSpawn(i)
    \/ ThreadStore(i)
    \/ ThreadIter(i)
    \/ ThreadReadLine(i)
    \/ ThreadEndOfStream(i)
    \/ ThreadFinish(i)

NextE2E ==
    \/ ExecuteFromIdle
    \/ UpdateOutput
    \/ \E i \in Invs : ThreadSpawn(i)
    \/ \E i \in Invs : ThreadStore(i)
    \/ \E i \in Invs : ThreadIter(i)
    \/ \E i \in Invs : ThreadReadLine(i)
    \/ \E i \in Invs : ThreadEndOfStream(i)
    \/ \E i \in Invs : ThreadFinish(i)
    \/ \E p \in Invs : ProcWrite(p)
    \/ \E p \in Invs : ProcExit(p)

\* the QTimer keeps calling update_output every 50 ms, and the operating system
\* keeps scheduling a thread that can run
SpecE2E ==
    /\ Init
    /\ [][NextE2E]_vars
    /\ WF_vars(UpdateOutput)
    /\ \A i \in Invs : WF_vars(ThreadStep(i))

\* -------------------------------------------- one command that may be stopped
NextStop ==
    \/ ExecuteFromIdle
    \/ StopCommand
    \/ UpdateOutput
    \/ \E i \in Invs : ThreadSpawn(i)
    \/ \E i \in Invs : ThreadStore(i)
    \/ \E i \in Invs : ThreadIter(i)
    \/ \E i \in Invs : ThreadReadLine(i)
    \/ \E i \in Invs : ThreadEndOfStream(i)
    \/ \E i \in Invs : ThreadFinish(i)
    \/ \E p \in Invs : ProcWrite(p)
    \/ \E p \in Invs : ProcExit(p)

\* as SpecE2E: the timer keeps firing and a thread that can run is scheduled
SpecStop ==
    /\ Init
    /\ [][NextStop]_vars
    /\ WF_vars(UpdateOutput)
    /\ \A i \in Invs : WF_vars(ThreadStep(i))

\* ================================================================= claims
\* the events of thread i in a history, in order
EvOf(h, i) == SelectSeq(h, LAMBDA ev : ev.inv = i)

IsTerminal(ev) == ev.type \in {"finished", "error"}
Terminals(h, i) == Len(SelectSeq(EvOf(h, i), IsTerminal))

\* a thread of run_in_thread exists and has not returned
Alive(i) == pc[i] \notin {"none", "done"}

\* thread i caught a failure of Popen or of readline
Faulted(i) == \E k \in 1 .. Len(EvOf(produced, i)) :
                 EvOf(produced, i)[k].data \in {SpawnError, ReadError}

\* what C1 expects of invocation i: its process's lines in order, then finished
ExpectedStream(i) ==
    [k \in 1 .. proc[i].written |-> [type |-> "output", data |-> LineTok(i, k), inv |-> i]]
    \o <<[type |-> "finished", data |-> proc[i].returncode, inv |-> i]>>

\* C1: an invocation whose child wrote N lines and exited, and whose thread has
\* returned without a Popen or readline failure, has put exactly the N line
\* events in order and then one finished event carrying the child's exit code.
C1_LinesThenCompleted ==
    \A i \in Invs :
        (pc[i] = "done" /\ proc[i].state = "exited" /\ ~Faulted(i))
            => EvOf(produced, i) = ExpectedStream(i)

\* C2: execute_command while a thread of an earlier invocation is alive starts
\* no second thread (and so spawns no second process).
C2_StartWhileActiveFails ==
    [][(\E i \in Invs : Alive(i)) => (\A j \in Invs : pc[j] = "none" => pc'[j] = "none")]_vars

\* C3: at most one invocation (a live child process and its thread) at a time.
C3_AtMostOneActive ==
    Cardinality({i \in Invs : Alive(i) /\ proc[i].state = "running"}) <= 1

\* some step of thread i is enabled
CanStep(i) ==
    \/ ENABLED ThreadSpawn(i)
    \/ ENABLED ThreadStore(i)
    \/ ENABLED ThreadIter(i)
    \/ ENABLED ThreadReadLine(i)
    \/ ENABLED ThreadEndOfStream(i)
    \/ ENABLED ThreadFinish(i)

ErrorDescriptions == {SpawnError, ReadError, NoneTypeError}

\* C5: an error event is the last event of its thread, carries the description
\* of the exception, follows only line events (never a finished event), and
\* the thread has returned; a failed Popen yields that one event alone; and
\* every failure of Popen or readline is in the queue history as an error.
C5_ErrorNoCompleted ==
    /\ \A i \in Invs :
          LET E == EvOf(produced, i) IN
          /\ (\E k \in 1 .. Len(E) : E[k].type = "error") =>
                /\ pc[i] = "done"
                /\ Last(E).type = "error"
                /\ Last(E).data \in ErrorDescriptions
                /\ \A k \in 1 .. Len(E) - 1 : E[k].type = "output"
          /\ (pc[i] = "done" /\ proc[i].state = "none") =>
                E = <<[type |-> "error", data |-> SpawnError, inv |-> i]>>
    /\ nFaults = Len(SelectSeq(produced, LAMBDA ev :
                        ev.type = "error" /\ ev.data \in {SpawnError, ReadError}))

\* thread 1 put a line and then failed reading the next
C5_Witness ==
    /\ pc[1] = "done"
    /\ Len(EvOf(produced, 1)) = 2
    /\ EvOf(produced, 1)[1].type = "output"
    /\ EvOf(produced, 1)[2] = [type |-> "error", data |-> ReadError, inv |-> 1]

\* C6: once every invocation has ended and the last event drained is an error
\* event, the status reads Idle.
C6_IdleAfterError ==
    (/\ consumed # <<>>
     /\ Last(consumed).type = "error"
     /\ output_queue = <<>>
     /\ \A i \in Invs : ~Alive(i))
        => status_label = "Idle"

\* the events one update_output step popped
Popped == SubSeq(consumed', Len(consumed) + 1, Len(consumed'))

\* C7: update_output appends one segment per popped event; the segment of a
\* finished event is the success marker for code 0 and otherwise a failure
\* marker that contains the code, so the log ends with it when that event is
\* the last one popped; and an exit code is only ever put as a finished event.
C7_CompletionMarker ==
    [][/\ Len(output') = Len(output) + Len(Popped) \/ consumed' = consumed
       /\ \A j \in 1 .. Len(Popped) :
             LET ev == Popped[j]
                 seg == output'[Len(output) + j]
             IN  ev.type = "finished" =>
                    IF ev.data = IntTok(0)
                    THEN seg.text = SuccessText /\ seg.fg = "success"
                    ELSE /\ \E k \in 1 .. Len(seg.text) : seg.text[k] = ev.data
                         /\ seg.text[1] = Lit("\n(x) Command failed (exit code ")
                         /\ seg.fg = "danger"
       /\ \A k \in Len(produced) + 1 .. Len(produced') :
             produced'[k].data.k = "int" => produced'[k].type = "finished"]_vars

\* a finished event with code 1 was the last one drained and the log ends with
\* the failure marker for 1
C7_Witness ==
    /\ consumed # <<>>
    /\ Last(consumed).type = "finished"
    /\ Last(consumed).data = IntTok(1)
    /\ output_queue = <<>>
    /\ output # <<>>
    /\ Last(output).text = FailedText(IntTok(1))

\* C8: in the events a thread put, a terminal event is the last one and the
\* lines of a process are in the order it wrote them; the events of the thread
\* that were drained are a prefix of those it put.
C8_TerminalAfterLines ==
    \A i \in Invs :
        LET E == EvOf(produced, i)
            R == EvOf(consumed, i)
        IN  /\ \A k \in 1 .. Len(E) : IsTerminal(E[k]) => k = Len(E)
            /\ \A k, l \in 1 .. Len(E) :
                  (k < l /\ E[k].type = "output" /\ E[l].type = "output"
                   /\ E[k].data.p = E[l].data.p) => E[k].data.n < E[l].data.n
            /\ Len(R) <= Len(E)
            /\ R = SubSeq(E, 1, Len(R))

\* thread 1 put two lines and a finished event, and all three were drained
C8_Witness ==
    /\ Len(EvOf(consumed, 1)) = 3
    /\ EvOf(consumed, 1)[1].type = "output"
    /\ EvOf(consumed, 1)[2].type = "output"
    /\ EvOf(consumed, 1)[3].type = "finished"

\* C9: the events drained so far, followed by the events in the queue, are
\* exactly the events put, in put order: none lost, none drained twice, FIFO.
C9_ExactlyOnceFIFO == consumed \o output_queue = produced

\* events of both threads were drained and more are waiting in the queue
C9_Witness ==
    /\ \E k, l \in 1 .. Len(consumed) : consumed[k].inv # consumed[l].inv
    /\ Len(output_queue) >= 2

\* C10: update_output on an empty queue changes nothing.
C10_EmptyDrainNoChange ==
    [][(output_queue = <<>> /\ UpdateOutput)
          => UNCHANGED <<status_label, output, current_process, stop_btn, emitted,
                         output_queue, consumed>>]_vars

\* the queue is empty (an earlier drain emptied it) while a command is shown
\* as running
C10_Witness ==
    /\ output_queue = <<>>
    /\ consumed # <<>>
    /\ status_label = "Running"
    /\ stop_btn
    /\ current_process # None
    /\ output # <<>>

\* the notifications C11 expects of one update_output: one per popped finished
\* event, carrying its code and the text of the log up to and including the
\* segment appended for that event; n segments precede the first popped event
RECURSIVE FinishedNotifications(_, _, _)
FinishedNotifications(popped, out, n) ==
    IF popped = <<>>
    THEN <<>>
    ELSE (IF Head(popped).type = "finished"
          THEN <<(<<Head(popped).data, toPlainText(SubSeq(out, 1, n + 1))>>)>>
          ELSE <<>>)
         \o FinishedNotifications(Tail(popped), out, n + 1)

\* C11: every step emits exactly one command_finished notification per finished
\* event it drained, with that event's code and the full log text at that
\* moment (marker included), and none for anything else; a step that drained a
\* finished event leaves the status Idle and the process reference None.
C11_FinishedNotification ==
    [][/\ emitted' = emitted \o FinishedNotifications(Popped, output', Len(output))
       /\ (\E k \in 1 .. Len(Popped) : Popped[k].type = "finished")
             => (status_label' = "Idle" /\ current_process' = None)]_vars

\* C12: in every state where a child process is running (and was not signalled
\* yet), a stop_command called now signals that process and appends the warning
\* line, and returns while the process is still running.
C12_StopSignalsRunning ==
    \A p \in Invs :
        (proc[p].state = "running" /\ ~proc[p].signalled /\ nStops < MaxStops)
            => ENABLED (/\ StopCommand
                        /\ proc'[p].signalled
                        /\ proc'[p].state = "running"
                        /\ output' = AppendOutput(output, TerminatedText, "warning"))

C14_ThreadWritesQueueOnly ==
    [][(\E i \in Invs : ThreadStep(i))
          => UNCHANGED <<output, status_label, stop_btn, current_process>>]_vars

\* C15: every terminal event a step drained has appended exactly one segment to
\* the log, the marker of that terminal state, and a step that drained a
\* terminal event leaves the status showing that the command has ended (Idle).
C15_TerminalLineAndStatus ==
    [][/\ Popped # <<>> => Len(output') = Len(output) + Len(Popped)
       /\ \A j \in 1 .. Len(Popped) :
             IsTerminal(Popped[j]) =>
                output'[Len(output) + j].text \in
                    {SuccessText, FailedText(Popped[j].data), ErrorText(Popped[j].data)}
       /\ (\E j \in 1 .. Len(Popped) : IsTerminal(Popped[j]))
             => status_label' = "Idle"]_vars

\* the log C16 expects of invocation 1: the echoed command, the lines its
\* process wrote, in order, and the success marker
E2ELog(command) ==
    <<[text |-> CommandEcho(command), fg |-> "accent", bold |-> TRUE]>>
    \o [k \in 1 .. proc[1].written |->
            [text |-> <<LineTok(1, k)>>, fg |-> "text_primary", bold |-> FALSE]]
    \o <<[text |-> SuccessText, fg |-> "success", bold |-> FALSE]>>

E2EFinal ==
    /\ \E command \in Commands : output = E2ELog(command)
    /\ status_label = "Idle"
    /\ ~stop_btn
    /\ output_queue = <<>>

\* the process of the one invocation has exited with code 0 and the thread has
\* caught no failure of Popen or readline
E2EPremise ==
    /\ proc[1].state = "exited"
    /\ proc[1].returncode = IntTok(0)
    /\ ~Faulted(1)

\* C16: for one invocation started from idle whose process wrote N lines and
\* exited with code 0: once the thread has returned and the queue is drained the
\* log is the echoed command, the N lines and the success marker, and the
\* status is Idle; and with the timer firing and the thread scheduled, that
\* final state is reached (unless a read failure is reported on the way).
C16_EndToEnd ==
    /\ []((E2EPremise /\ pc[1] = "done" /\ output_queue = <<>>) => E2EFinal)
    /\ (E2EPremise ~> (E2EFinal \/ Faulted(1)))

\* the final state of an invocation whose process wrote two lines
C16_Witness ==
    /\ E2EPremise
    /\ E2EFinal
    /\ proc[1].written = 2
    /\ Len(output) = 4
    /\ Len(emitted) = 1

\* C17: a save_output call that wrote the file leaves in it exactly the texts
\* appended to the log since the last clear, concatenated in append order, and
\* leaves the log as it was.
C17_SaveWritesLogText ==
    [][(nSaves' = nSaves + 1 /\ save_call'.path /\ save_call'.raised = "none")
          => (file' = RawText(output) /\ output' = output)]_vars

\* C18: a save_output call in which open or write failed ends with the
\* exception raised to its caller (a call that returns normally with a path has
\* written the whole text), puts nothing in the queue, and leaves the log, the
\* status, the stop control, the process reference, the threads and the
\* processes as they were.
C18_SaveFailureSurfaced ==
    [][nSaves' = nSaves + 1 =>
          /\ (save_call'.path /\ save_call'.raised = "none")
                => file' = toPlainText(output)
          /\ ~save_call'.path => (file' = file /\ save_call'.raised = "none")
          /\ UNCHANGED <<output, status_label, stop_btn, current_process, emitted,
                         output_queue, produced, consumed, pc, reader, waitOn,
                         proc>>]_vars

\* a save failed with OSError after open truncated the file and a line of the
\* log was written, while the command is running with an event in the queue
C18_Witness ==
    /\ save_call = [path |-> TRUE, raised |-> "OSError"]
    /\ file # NoFile
    /\ \E k \in 1 .. Len(file) : file[k].k = "line"
    /\ Len(file) < Len(RawText(output))
    /\ status_label = "Running"
    /\ proc[1].state = "running"
    /\ output_queue # <<>>

\* C19: clear_output empties the log, and a step that empties the log changes
\* neither the queue, the status, the stop control, the process reference, the
\* threads nor the processes; every output event drained afterwards is appended
\* to the log as its line.
C19_ClearChangesLogOnly ==
    [][/\ ClearOutput => output' = <<>>
       /\ (output # <<>> /\ output' = <<>>)
             => UNCHANGED <<output_queue, produced, consumed, status_label, stop_btn,
                            current_process, emitted, pc, reader, waitOn, proc>>
       /\ \A j \in 1 .. Len(Popped) :
             Popped[j].type = "output"
                => /\ Len(output') >= Len(output) + j
                   /\ output'[Len(output) + j].text = <<Popped[j].data>>]_vars

\* the log was cleared while process 1 was running, and a line put by thread 1
\* was rendered afterwards: the log begins with that line, not with the echo
C19_Witness ==
    /\ output # <<>>
    /\ output[1].text = <<LineTok(1, 1)>>
    /\ status_label = "Running"
    /\ current_process = 1
    /\ proc[1].state = "running"
    /\ output_queue # <<>>

\* an invocation was started and its terminal event is not drained yet
InFlight(i) == pc[i] # "none" /\ Terminals(consumed, i) = 0

\* C20: the stop control is enabled exactly when some invocation is in flight:
\* from execute_command until its finished or error event is drained.
C20_StopEnabledIffRunning ==
    stop_btn <=> (\E i \in Invs : InFlight(i))

\* C21: one run of update_output pops every event that was in the queue when
\* it ran and leaves the queue empty, without waiting for anything.
C21_DrainPopsAll ==
    [][UpdateOutput => (Popped = output_queue /\ output_queue' = <<>>)]_vars

\* the line segments of the log, in the order they were appended
LinesOf(out) == SelectSeq(out, LAMBDA seg : seg.text[1].k = "line")

\* every line process 1 wrote is in the log, once, in the order written
AllLinesRendered ==
    LinesOf(output) =
        [k \in 1 .. proc[1].written |->
            [text |-> <<LineTok(1, k)>>, fg |-> "text_primary", bold |-> FALSE]]

\* C22: for one invocation that may be stopped at any moment: a stop_command
\* step changes neither the queue nor the lines in the pipe; when the thread has
\* returned and the queue is drained, every line the process wrote before it
\* exited is in the log, in the order written; and with the timer firing and
\* the thread scheduled that state is reached once the process has exited
\* (unless a read failure is reported on the way).
C22_StopKeepsOutput ==
    /\ [][StopCommand => UNCHANGED <<output_queue, produced, consumed>>
                         /\ \A p \in Invs : /\ proc'[p].written = proc[p].written
                                             /\ proc'[p].nread = proc[p].nread]_vars
    /\ []((pc[1] = "done" /\ output_queue = <<>> /\ ~Faulted(1)) => AllLinesRendered)
    /\ ((proc[1].state = "exited")
            ~> ((pc[1] = "done" /\ output_queue = <<>> /\ AllLinesRendered)
                \/ Faulted(1)))

\* process 1 wrote two lines and was stopped before the thread read the second
\* (the warning precedes that line in the log); it exited on the signal and
\* both lines are in the log
C22_Witness ==
    /\ proc[1].written = 2
    /\ proc[1].returncode = IntTok(0 - SIGTERM)
    /\ pc[1] = "done"
    /\ output_queue = <<>>
    /\ AllLinesRendered
    /\ \E k, l \in 1 .. Len(output) :
          /\ k < l
          /\ output[k].text = TerminatedText
          /\ output[l].text = <<LineTok(1, 2)>>

\* the style categories append_output is called with
Styles == {"command", "output", "error", "success", "warning"}

\* C23: the notice stop_command appends is in the log in the rendering of the
\* warning category, which is not the rendering of any of the categories
\* command, output, error and success; and those four differ from each other.
C23_WarningStyleDistinct ==
    /\ \A k \in 1 .. Len(output) :
          output[k].text = TerminatedText
             => /\ [fg |-> output[k].fg, bold |-> output[k].bold] = Format("warning")
                /\ \A a \in Styles \ {"warning"} :
                      [fg |-> output[k].fg, bold |-> output[k].bold] # Format(a)
    /\ \A a, b \in Styles \ {"warning"} : a # b => Format(a) # Format(b)

\* C26: an invocation whose process was spawned and has exited, and whose
\* thread has returned without a failure of readline, has put as its terminal
\* event a finished event carrying the exit code of its own process; and every
\* finished event in the history carries the exit code of the process of the
\* thread that put it.
C26_CompletedCarriesOwnCode ==
    /\ \A i \in Invs :
          (pc[i] = "done" /\ proc[i].state = "exited" /\ ~Faulted(i))
             => Last(EvOf(produced, i)) =
                   [type |-> "finished", data |-> proc[i].returncode, inv |-> i]
    /\ \A k \in 1 .. Len(produced) :
          produced[k].type = "finished"
             => (/\ proc[produced[k].inv].state = "exited"
                 /\ produced[k].data = proc[produced[k].inv].returncode)

\* C27: while an invocation that was started has not had its terminal event
\* drained, the status reads Running and the stop control is enabled.
C27_RunningWhileInFlight ==
    (\E i \in Invs : InFlight(i)) => (status_label = "Running" /\ stop_btn)

\* C29: with no process reference held, stop_command changes nothing: no step
\* of it that changes the state is possible.
C29_StopWithoutProcessNoOp ==
    current_process = None => ~ENABLED <<StopCommand>>_vars

\* no process reference is held after the finished event of a command was
\* drained, and stop_command can be called (and changes nothing)
C29_Witness ==
    /\ current_process = None
    /\ consumed # <<>>
    /\ Last(consumed).type = "finished"
    /\ status_label = "Idle"
    /\ output # <<>>
    /\ nStops < MaxStops
    /\ ENABLED StopCommand

\* ------------------------------------------------ BaseSecurityTool.execute
IsPrefix(a, b) == Len(a) <= Len(b) /\ a = SubSeq(b, 1, Len(a))

\* the lines the child has written to stream s, in the order written
WrittenLines(s) == [k \in 1 .. child.written[s] |-> LineTok(s, k)]

\* the output_callback calls made for lines of stream s, in call order
CallsOf(s) == SelectSeq(tool.output_calls, LAMBDA arg : Last(arg).p = s)

\* the calls C24 expects for stream s: one per line written, stderr prefixed
ExpectedCalls(s) ==
    [k \in 1 .. child.written[s] |->
        IF s = 1 THEN <<LineTok(1, k)>> ELSE <<Lit("[stderr] "), LineTok(2, k)>>]

\* execute caught an exception
CaughtException == tool.result.returned /\ tool.result.return_code = 0 - 1

\* C24: in a run of execute with an output_callback that caught no exception:
\* the calls made for a stream are, in order, calls for the first lines written
\* to it, each line once; when nothing more can happen every line written has
\* been passed; and the stdout and stderr of the returned ToolResult are the
\* lines written to each stream, in order.
C24_EveryLineToCallback ==
    (child.state # "none" /\ ~CaughtException) =>
        /\ tool.input.output_callback =>
              /\ \A s \in Streams : IsPrefix(CallsOf(s), ExpectedCalls(s))
              /\ ~ENABLED NextTool => \A s \in Streams : CallsOf(s) = ExpectedCalls(s)
        /\ ~tool.input.output_callback => tool.output_calls = <<>>
        /\ tool.result.returned =>
              /\ tool.result.stdout = WrittenLines(1)
              /\ tool.result.stderr = WrittenLines(2)

\* C25: a run of execute that was given a progress_callback and spawned the
\* tool has called progress_callback at least once when it returns.
C25_ProgressCallbackCalled ==
    (tool.result.returned /\ tool.input.progress_callback /\ child.state # "none")
        => tool.progress_calls >= 1

\* C28: execute never hangs: while a call of execute has not returned, execute
\* or the child can take a step.
C28_ExecuteNeverStuck ==
    tool.pc \notin {"idle", "done"} => ENABLED NextTool

\* parameter k fails validation, in the claim's words: required and missing or
\* falsy, or a value that does not match its regex
ParamFails(k) ==
    \/ tool.input.parameters[k].required /\ tool.input.params[k] \in {"missing", "falsy"}
    \/ tool.input.parameters[k].validation_regex /\ tool.input.params[k] = "bad"

FailingParams == {k \in 1 .. Len(tool.input.parameters) : ParamFails(k)}

FirstFailing == CHOOSE k \in FailingParams : \A j \in FailingParams : k <= j

\* the validation message C30 expects for the first failing parameter
ExpectedMessage ==
    IF tool.input.params[FirstFailing] \in {"missing", "falsy"}
    THEN <<Lit("Required parameter '"), Label(FirstFailing), Lit("' is missing")>>
    ELSE <<Lit("Invalid format for '"), Label(FirstFailing), Lit("'")>>

\* C30: a call whose parameters fail validation has returned
\* ToolResult(False, -1, '', message of the first failing parameter) without
\* building the command, spawning or calling a callback, and only such a call
\* returns before building; a call that got past validation has no failing
\* parameter; an exception of Popen or readline ends the call with
\* ToolResult(False, -1, '', str(e)); every call that ended returned a result.
C30_ValidationAndExceptions ==
    /\ (tool.pc = "done" /\ ~tool.built) =>
          /\ FailingParams # {}
          /\ tool.result = [returned |-> TRUE, success |-> FALSE, return_code |-> 0 - 1,
                             stdout |-> <<>>, stderr |-> ExpectedMessage]
          /\ child.state = "none"
          /\ tool.output_calls = <<>>
          /\ tool.progress_calls = 0
    /\ tool.pc = "spawn" => (tool.built /\ FailingParams = {})
    /\ (tool.pc = "done" /\ tool.built /\ tool.result.return_code = 0 - 1) =>
          /\ ~tool.result.success
          /\ tool.result.stdout = <<>>
          /\ tool.result.stderr \in {<<SpawnError>>, <<ReadError>>}
    /\ tool.pc = "done" => tool.result.returned

\* the first parameter is fine and the second, not required, has a value its
\* regex does not match: execute returned the Invalid format message for it
C30_Witness ==
    /\ tool.pc = "done"
    /\ ~tool.built
    /\ Len(tool.input.parameters) = 2
    /\ ~ParamFails(1)
    /\ tool.input.params[1] = "good"
    /\ ~tool.input.parameters[2].required
    /\ tool.result.stderr = <<Lit("Invalid format for '"), Label(2), Lit("'")>>
    /\ tool.input.output_callback

====
